---- MODULE Spec2Model ----
(***************************************************************************)
(* A model of the khinsider MIDI downloader: the command line entry point, *)
(* the rate limited HTTP client, the page scraper, the catalogue           *)
(* repository, the file repository and the two download use cases.         *)
(*                                                                         *)
(* Strings are sequences of tokens.  A token is a piece of text that holds *)
(* no "/" (except the token "/" itself), so startswith, split('/') and the *)
(* substring test for ".mid" are computed on the tokens.                   *)
(***************************************************************************)
EXTENDS Integers, Sequences, FiniteSets, TLC

VARIABLES
    pc,                 \* position of the single thread of control in main
    args,               \* the parsed command line (argparse namespace)
    constructed,        \* the KhinsiderClient was constructed
    closed,             \* KhinsiderClient.close was called
    rate_limit_delay,   \* KhinsiderClient.rate_limit_delay
    max_retries,        \* total of the Retry mounted on the client's session
    last_request_time,  \* KhinsiderClient.last_request_time
    now,                \* the wall clock, time.time()
    sendTimes,          \* times the last two requests were sent (oldest first)
    lastGet,            \* the last call of get made for a file's bytes or to a
                        \* free-standing client, and its result
    reqLog,             \* requests issued by the running per-game download
    games,              \* DownloadSystemUseCase.execute: the listed games
    gi,                 \* index of the game the per-system loop is at
    output_dir,         \* output_dir of the running per-game download
    game_url,           \* game_url of the running per-game download
    midi_files,         \* the MidiFile objects of the running per-game download
    listed,             \* what parse_midi_list returned, before resolution
    details,            \* per entry, what its detail fetch and parse gave,
                        \* while get_midi_files_for_game runs
    fi,                 \* index of the entry the running loop is at
    downloaded,         \* DownloadGameUseCase.execute: indices of its downloaded list
    skipped,            \* indices the resume branch took
    saved,              \* indices whose save_file returned True
    fs,                 \* the files on disk: path -> content
    fs0                 \* the files on disk when the run started

vars == <<pc, args, constructed, closed, rate_limit_delay, max_retries,
          last_request_time, now, sendTimes, lastGet, reqLog, games, gi,
          output_dir, game_url, midi_files, listed, details, fi, downloaded,
          skipped, saved, fs, fs0>>

-----------------------------------------------------------------------------
(* Bounds of the model. *)

\* rows of a game's listing page
MaxRows == 2
\* rows of a system's listing page, the header row included
MaxGameRows == 3
\* requests a free-standing client is asked to make
MaxRequests == 3
\* time that passes between two calls of a free-standing client
MaxElapsed == 3
\* the largest configured delay
MaxDelay == 2
\* how much longer than asked time.sleep may sleep
MaxOversleep == 1
\* time.time() when the program starts
StartTime == 5

\* the longest href of an anchor, in tokens
MaxHrefLen == 3

-----------------------------------------------------------------------------
(* Strings *)

\* an absent url (None)
NoUrl == [none |-> TRUE, url |-> <<>>]

SLASH == "/"

StartsWith(s, p) == Len(s) >= Len(p) /\ SubSeq(s, 1, Len(p)) = p

\* '.mid' in url
ContainsMid(s) == \E k \in 1..Len(s) : s[k] = ".mid"

\* url.split('/')[-1]
LastSegment(s) ==
    LET idx == {k \in 1..Len(s) : s[k] = SLASH}
    IN  IF idx = {} THEN s
        ELSE LET last == CHOOSE k \in idx : \A m \in idx : m <= k
             IN  SubSeq(s, last + 1, Len(s))

\* "https://www.khinsider.com"
SITE == <<"https:", "/", "/", "www.khinsider.com">>

\* KhinsiderScraper.BASE_URL
BASE_URL == SITE \o <<"/", "midi">>

RECURSIVE SeqsUpTo(_, _)
SeqsUpTo(S, n) ==
    IF n = 0 THEN {<<>>}
    ELSE LET shorter == SeqsUpTo(S, n - 1)
         IN  shorter \cup {Append(s, x) : s \in {t \in shorter : Len(t) = n - 1}, x \in S}

-----------------------------------------------------------------------------
(* Domain entities *)

\* MidiFile with downloaded defaulting to True
MidiFileDownloaded(name, url) ==
    [name |-> name, url |-> url, size_bytes |-> 0, downloaded |-> TRUE]

\* MidiFile(name, url, ...): size_bytes = 0, downloaded = False
MidiFile(name, url) ==
    [name |-> name, url |-> url, size_bytes |-> 0, downloaded |-> FALSE]

\* MidiFile.filename
filename(midi) ==
    IF midi.url # <<>> THEN LastSegment(midi.url) ELSE midi.name \o <<".mid">>

\* MidiFile.mark_downloaded
mark_downloaded(midi) == [midi EXCEPT !.downloaded = TRUE]

\* Game(name, url, system): midi_files = []
Game(name, url) == [name |-> name, url |-> url, midi_files |-> <<>>]

-----------------------------------------------------------------------------
(* KhinsiderScraper.  A page is what BeautifulSoup sees of it: whether it   *)
(* has a table, and for each row of the first table the number of its td    *)
(* cells, whether the first cell has an anchor, the anchor's text and href  *)
(* (the empty string when the anchor has no href).                          *)

Row(cells, link, text, href) ==
    [cells |-> cells, link |-> link, text |-> text, href |-> href]

RECURSIVE GameRowsToGames(_)
GameRowsToGames(rows) ==
    IF rows = <<>> THEN <<>>
    ELSE LET row  == Head(rows)
             rest == GameRowsToGames(Tail(rows))
             url  == IF StartsWith(row.href, <<SLASH>>)
                     THEN SITE \o row.href ELSE row.href
         IN  IF row.cells >= 2 /\ row.link
             THEN <<Game(row.text, url)>> \o rest
             ELSE rest

\* KhinsiderScraper.parse_game_list
parse_game_list(page) ==
    IF ~page.table THEN <<>>
    ELSE GameRowsToGames(IF page.rows = <<>> THEN <<>> ELSE Tail(page.rows))

RECURSIVE MidiRowsToFiles(_)
MidiRowsToFiles(rows) ==
    IF rows = <<>> THEN <<>>
    ELSE LET row  == Head(rows)
             rest == MidiRowsToFiles(Tail(rows))
             url  == IF StartsWith(row.href, <<SLASH, SLASH>>)
                     THEN <<"https:">> \o row.href
                     ELSE IF StartsWith(row.href, <<SLASH>>)
                          THEN SITE \o row.href
                          ELSE row.href
         IN  IF row.cells >= 2 /\ row.link /\ ContainsMid(url)
             THEN <<MidiFile(row.text, url)>> \o rest
             ELSE rest

\* KhinsiderScraper.parse_midi_list
parse_midi_list(page) ==
    IF ~page.table THEN <<>> ELSE MidiRowsToFiles(page.rows)

\* KhinsiderScraper.parse_midi_download_url; a detail page is whether it has
\* the "Click here to download" anchor, and that anchor's href
parse_midi_download_url(detail) ==
    IF detail.link
    THEN [none |-> FALSE,
          url  |-> IF StartsWith(detail.href, <<SLASH, SLASH>>)
                   THEN <<"https:">> \o detail.href
                   ELSE detail.href]
    ELSE NoUrl

-----------------------------------------------------------------------------
(* KhinsiderClient *)

\* max_retries: int = 3
DefaultMaxRetries == 3
\* the largest max_retries a free-standing client is configured with
MaxRetriesCfg == 3

\* status_forcelist of the Retry strategy
StatusForcelist == {429, 500, 502, 503, 504}

\* A response body: its length in bytes and what the bytes are (the bytes of a
\* MIDI file, or the page an HTML document parses to).
Body(size, payload) == [size |-> size, payload |-> payload]
EmptyBody == Body(0, <<>>)

\* What the server does with one session.get: it answers `status` to the
\* first `fails` attempts and `final`, with `body`, to every later one.
Script(fails, status, final, body) ==
    [fails |-> fails, status |-> status, final |-> final, body |-> body]

Answer(script, attempt) ==
    IF attempt <= script.fails THEN script.status ELSE script.final

\* requests rejects a url without a scheme (MissingSchema, a RequestException)
ValidUrl(url) == StartsWith(url, <<"https:", SLASH, SLASH>>)

\* the retry loop with max_retries taken as the number of attempts
RECURSIVE UrlopenOffByOne(_, _, _)
UrlopenOffByOne(total, script, attempt) ==
    IF Answer(script, attempt) \in StatusForcelist
    THEN IF total - 1 <= 0
         THEN [raised |-> TRUE, status |-> Answer(script, attempt),
               body |-> EmptyBody, attempts |-> attempt]
         ELSE UrlopenOffByOne(total - 1, script, attempt + 1)
    ELSE [raised |-> FALSE, status |-> Answer(script, attempt),
          body |-> script.body, attempts |-> attempt]

\* The adapter's retry loop under Retry(total=max_retries, status_forcelist=...,
\* allowed_methods=['GET', 'HEAD']): an answer of the status_forcelist spends
\* one of `total`, and the request fails (RetryError) once total drops below
\* zero; any other answer is the response.
RECURSIVE Urlopen(_, _, _)
Urlopen(total, script, attempt) ==
    IF Answer(script, attempt) \in StatusForcelist
    THEN IF total - 1 < 0
         THEN [raised |-> TRUE, status |-> Answer(script, attempt),
               body |-> EmptyBody, attempts |-> attempt]
         ELSE Urlopen(total - 1, script, attempt + 1)
    ELSE [raised |-> FALSE, status |-> Answer(script, attempt),
          body |-> script.body, attempts |-> attempt]

\* self.session.get(url, timeout=30)
SessionGet(url, script, total) ==
    IF ~ValidUrl(url)
    THEN [raised |-> TRUE, status |-> 0, body |-> EmptyBody, attempts |-> 0]
    ELSE Urlopen(total, script, 1)

\* _rate_limit without the sleep
RateLimitNoSleep(current_time, last, delay, over) == current_time

\* KhinsiderClient._rate_limit: the time at which it returns, which is also the
\* new last_request_time.  `over` is how much longer than asked sleep slept.
RateLimit(current_time, last, delay, over) ==
    LET time_since_last == current_time - last
    IN  IF time_since_last < delay
        THEN current_time + (delay - time_since_last) + over
        ELSE current_time

\* KhinsiderClient.get, after _rate_limit: the content, or None when the
\* session raised a RequestException or raise_for_status did
GetContent(url, script, total) ==
    LET r == SessionGet(url, script, total)
    IN  IF r.raised \/ r.status >= 400
        THEN [none |-> TRUE, content |-> EmptyBody, attempts |-> r.attempts]
        ELSE [none |-> FALSE, content |-> r.body, attempts |-> r.attempts]

\* KhinsiderClient.get_text: the decoded content, or None when get gave None
\* or empty content
GetText(url, script, total) ==
    LET r == GetContent(url, script, total)
    IN  IF ~r.none /\ r.content.size > 0
        THEN r
        ELSE [none |-> TRUE, content |-> EmptyBody, attempts |-> r.attempts]

\* The client's fields and the clock after one call of get or get_text that
\* was made `elapsed` after the previous one returned.
ClientStep(elapsed, over) ==
    LET sent == RateLimit(now + elapsed, last_request_time, rate_limit_delay, over)
    IN  /\ now' = sent
        /\ last_request_time' = sent
        /\ sendTimes' = IF sendTimes = <<>> THEN <<sent>>
                        ELSE <<sendTimes[Len(sendTimes)], sent>>

-----------------------------------------------------------------------------
(* The world the program runs in: the command line, the pages and files the *)
(* server holds, and the files on disk.                                     *)

\* default of --delay
DefaultDelay == 1

\* default of --output, as a path: the sequence of its components
OUT == << <<"midi_downloads">> >>

NES == <<"nes">>
GAME_URL == BASE_URL \o <<"/", "nes", "/", "g1">>

A_MID == <<"a", ".mid">>
B_MID == <<"b", ".mid">>

\* rows of a game's listing page: a site-relative link, a protocol-relative
\* link to a file of the same name, a link to something that is no MIDI file,
\* a row with one cell only, a row without an anchor
MidiRows ==
    { Row(2, TRUE, <<"a">>, <<"/", "midi", "/">> \o A_MID),
      Row(2, TRUE, <<"b">>, <<"/", "/", "cdn", "/">> \o A_MID),
      Row(2, TRUE, <<"c">>, <<"https:", "/", "/", "cdn", "/", "c", ".txt">>),
      Row(1, TRUE, <<"a">>, <<"/", "midi", "/">> \o A_MID),
      Row(2, FALSE, <<>>, <<>>) }

Page(table, rows) == [table |-> table, rows |-> rows]

MidiPages ==
    {Page(FALSE, <<>>)} \cup {Page(TRUE, rows) : rows \in SeqsUpTo(MidiRows, MaxRows)}

\* In a run over a system the pages of its games have one row at most: the
\* per-game download is the same code in both modes, and a run over one game
\* explores the longer pages.
SystemMidiPages ==
    {Page(FALSE, <<>>)} \cup {Page(TRUE, rows) : rows \in SeqsUpTo(MidiRows, 1)}

\* detail pages: without the download anchor, with an anchor that has no
\* href, with an anchor to the file
DetailPages ==
    { [link |-> FALSE, href |-> <<>>],
      [link |-> TRUE, href |-> <<>>],
      [link |-> TRUE, href |-> <<"/", "/", "cdn", "/">> \o B_MID] }

\* rows of a system's listing page: the header, two games, a row with one cell
HeaderRow == Row(2, FALSE, <<>>, <<>>)

\* In a run over a system the detail pages are without the download anchor,
\* for the same reason as its listing pages are short.
SystemDetailPages == {[link |-> FALSE, href |-> <<>>]}

GameRows ==
    { HeaderRow,
      Row(2, TRUE, <<"g1">>, <<"/", "midi", "/", "nes", "/", "g1">>),
      Row(2, TRUE, <<"g2">>, BASE_URL \o <<"/", "nes", "/", "g2">>),
      Row(1, TRUE, <<"g1">>, <<"/", "midi", "/", "nes", "/", "g1">>) }

GamePages ==
    {Page(FALSE, <<>>)}
        \cup {Page(TRUE, rows) : rows \in SeqsUpTo(GameRows, MaxGameRows)}

\* the bytes of the MIDI files the server holds, and of the files on disk
\* before the run
MidiBytes == {<<>>, <<7, 8>>}
OldBytes == <<9>>

Doc(page) == Body(1, page)
File(bytes) == Body(Len(bytes), bytes)

\* what the server may do with a request of the pipeline for one of `bodies`
Scripts(bodies) ==
    { Script(fails, 503, final, body) :
        fails \in {0, DefaultMaxRetries + 1}, final \in {200, 404}, body \in bodies }

\* what the server may do with a request for the bytes of a file: the file
\* (empty, or not), 404, or 503 until the retries are used up.  In a run over
\* a system it answers at once, with a file that is not empty or with 404.
FileScripts(system_run) ==
    IF system_run
    THEN {Script(0, 503, final, File(<<7, 8>>)) : final \in {200, 404}}
    ELSE {Script(0, 503, 200, File(b)) : b \in MidiBytes}
            \cup {Script(fails, 503, 404, File(<<>>)) :
                    fails \in {0, DefaultMaxRetries + 1}}

\* the directories the run may write to, and the files on disk before it
Dirs == {OUT} \cup {OUT \o <<NES, g>> : g \in {<<"g1">>, <<"g2">>}}
InitialFiles ==
    { [p \in {Append(d, f) : d \in Dirs, f \in names} |-> OldBytes] :
        names \in SUBSET {A_MID, B_MID} }

-----------------------------------------------------------------------------
(* FileSystemRepository.  The disk is the files the process can reach, and  *)
(* what the disk does with one call is an input: "ok", "mkdir_failed"        *)
(* (parent.mkdir raised), "write_failed" (write_bytes opened and truncated   *)
(* the file, then raised) or "stat_failed" (stat raised an OSError other     *)
(* than the four Path.exists takes for "no such file": permission denied on  *)
(* the directory, a name that is too long).                                  *)

FsOutcomes == {"ok", "mkdir_failed", "write_failed"}

\* what stat may do with a path: it fails only for a path the process cannot
\* reach
StatOutcomes(disk, file_path) ==
    {"ok"} \cup (IF file_path \in DOMAIN disk THEN {} ELSE {"stat_failed"})

\* file_exists with the test inverted
file_exists_inverted(disk, file_path, outcome) ==
    IF outcome = "stat_failed"
    THEN [exists |-> FALSE, raised |-> TRUE]
    ELSE [exists |-> file_path \notin DOMAIN disk, raised |-> FALSE]

\* FileSystemRepository.file_exists: what it returns, and whether an
\* exception left it (Path.exists re-raises the OSError of stat, and nothing
\* here catches it)
file_exists(disk, file_path, outcome) ==
    IF outcome = "stat_failed"
    THEN [exists |-> FALSE, raised |-> TRUE]
    ELSE [exists |-> file_path \in DOMAIN disk, raised |-> FALSE]

\* write_bytes that leaves a file that is already there as it is
WriteIfAbsent(disk, file_path, bytes) ==
    [p \in DOMAIN disk \cup {file_path} |->
        IF p \in DOMAIN disk THEN disk[p] ELSE bytes]

\* file_path.write_bytes(content): the file is created or replaced
Write(disk, file_path, bytes) ==
    [p \in DOMAIN disk \cup {file_path} |->
        IF p = file_path THEN bytes ELSE disk[p]]

\* save_file that reports success when the directory could not be made
save_file_lenient(disk, content, file_path, outcome) ==
    IF outcome = "ok"
    THEN [ok |-> TRUE, raised |-> FALSE, disk |-> Write(disk, file_path, content)]
    ELSE IF outcome = "write_failed"
         THEN [ok |-> FALSE, raised |-> FALSE, disk |-> Write(disk, file_path, <<>>)]
         ELSE [ok |-> TRUE, raised |-> FALSE, disk |-> disk]

\* FileSystemRepository.save_file: what it returns, the disk it leaves, and
\* whether an exception left it (none does: it catches Exception)
save_file(disk, content, file_path, outcome) ==
    IF outcome = "ok"
    THEN [ok |-> TRUE, raised |-> FALSE, disk |-> Write(disk, file_path, content)]
    ELSE IF outcome = "write_failed"
         THEN [ok |-> FALSE, raised |-> FALSE, disk |-> Write(disk, file_path, <<>>)]
         ELSE [ok |-> FALSE, raised |-> FALSE, disk |-> disk]

\* FileSystemRepository.create_directory: what it returns, and whether an
\* exception left it (none does: it catches Exception)
create_directory(outcome) == [ok |-> outcome = "ok", raised |-> FALSE]

-----------------------------------------------------------------------------
(* The program *)

NoGet == [url |-> <<>>, script |-> Script(0, 503, 200, EmptyBody),
          none |-> TRUE, content |-> EmptyBody, attempts |-> 0, text |-> FALSE]

Request(kind, idx, url) == [kind |-> kind, idx |-> idx, url |-> url]

ArgSets ==
    [system : {<<>>, NES}, game : {<<>>, GAME_URL}, resume : BOOLEAN,
     delay : {DefaultDelay}]

Init ==
    /\ pc = "start"
    /\ args \in ArgSets
    /\ constructed = FALSE
    /\ closed = FALSE
    /\ rate_limit_delay = 0
    /\ max_retries = 0
    /\ last_request_time = 0
    /\ now = StartTime
    /\ sendTimes = <<>>
    /\ lastGet = NoGet
    /\ reqLog = <<>>
    /\ games = <<>>
    /\ gi = 0
    /\ output_dir = <<>>
    /\ game_url = <<>>
    /\ midi_files = <<>>
    /\ listed = <<>>
    /\ details = <<>>
    /\ fi = 0
    /\ downloaded = <<>>
    /\ skipped = {}
    /\ saved = {}
    /\ fs0 \in InitialFiles
    /\ fs = fs0

clientVars == <<rate_limit_delay, max_retries, last_request_time, now, sendTimes>>
gameVars == <<lastGet, reqLog, midi_files, listed, details, fi, downloaded,
              skipped, saved>>

\* DownloadGameUseCase.execute is called: its parameters and fresh locals
EnterGame(url, dir) ==
    /\ game_url' = url
    /\ output_dir' = dir
    /\ lastGet' = NoGet
    /\ reqLog' = <<>>
    /\ midi_files' = <<>>
    /\ listed' = <<>>
    /\ details' = <<>>
    /\ fi' = 0
    /\ downloaded' = <<>>
    /\ skipped' = {}
    /\ saved' = {}

\* main, up to the try: parse_args, the validation of the arguments and the
\* construction of the client; then the branch on args.game and args.system
ParseArgs ==
    /\ pc = "start"
    /\ IF args.system = <<>> /\ args.game = <<>>
       THEN /\ pc' = "usage_error"
            /\ UNCHANGED <<constructed, rate_limit_delay, max_retries, gameVars,
                           game_url, output_dir>>
       ELSE /\ constructed' = TRUE
            /\ rate_limit_delay' = args.delay
            /\ max_retries' = DefaultMaxRetries
            /\ IF args.game # <<>>
               THEN /\ pc' = "list"
                    /\ EnterGame(args.game, OUT)
               ELSE /\ pc' = "sys_list"
                    /\ UNCHANGED <<gameVars, game_url, output_dir>>
    /\ UNCHANGED <<args, closed, last_request_time, now, sendTimes,
                   games, gi, fs, fs0>>

\* KhinsiderRepositoryImpl.get_games_for_system, and the check of its result
\* in DownloadSystemUseCase.execute
GetGamesForSystem ==
    /\ pc = "sys_list"
    /\ \E script \in Scripts({EmptyBody} \cup {Doc(page) : page \in GamePages}) :
         LET url  == BASE_URL \o <<SLASH>> \o args.system
             html == GetText(url, script, max_retries)
             gs   == IF ~html.none THEN parse_game_list(html.content.payload)
                     ELSE <<>>
         IN  /\ ClientStep(0, 0)
             /\ games' = gs
             /\ pc' = IF gs = <<>> THEN "finally" ELSE "sys_mkdir"
    /\ UNCHANGED <<args, constructed, closed, rate_limit_delay, max_retries,
                   lastGet, gi, output_dir, game_url, gameVars, fs, fs0>>

\* system_dir.mkdir(parents=True, exist_ok=True): it returns, or it raises
\* OSError, which nothing on the way to main's finally catches.  After it the
\* loop over the games calls the per-game download for the first game.
SystemMkdir ==
    /\ pc = "sys_mkdir"
    /\ \E outcome \in {"ok", "mkdir_failed"} :
         IF outcome = "ok"
         THEN /\ pc' = "list"
              /\ gi' = 1
              /\ EnterGame(games[1].url, OUT \o <<args.system, games[1].name>>)
         ELSE /\ pc' = "raised"
              /\ UNCHANGED <<gi, game_url, output_dir, gameVars>>
    /\ UNCHANGED <<args, constructed, closed, clientVars, games, fs, fs0>>

\* KhinsiderRepositoryImpl.get_midi_files_for_game up to its loop: the fetch of
\* the game's page and parse_midi_list.  With no page or no entry the
\* per-game download returns the empty list.
ListFetch ==
    /\ pc = "list"
    /\ \E script \in Scripts({EmptyBody} \cup
                {Doc(page) : page \in IF args.game # <<>> THEN MidiPages
                                                          ELSE SystemMidiPages}) :
         LET html      == GetText(game_url, script, max_retries)
             midi_list == IF ~html.none THEN parse_midi_list(html.content.payload)
                          ELSE <<>>
         IN  /\ ClientStep(0, 0)
             /\ reqLog' = Append(reqLog, Request("listing", 0, game_url))
             /\ midi_files' = midi_list
             /\ listed' = midi_list
             /\ fi' = 1
             /\ pc' = IF midi_list = <<>> THEN "ret" ELSE "resolve"
    /\ UNCHANGED <<args, constructed, closed, rate_limit_delay, max_retries,
                   lastGet, games, gi, output_dir, game_url, details,
                   downloaded, skipped, saved, fs, fs0>>

NoDetail == [link |-> FALSE, href |-> <<>>]

\* the loop body without the test of download_url
ResolveUrlUnchecked(midi, detail_html) ==
    IF ~detail_html.none
    THEN LET download_url == parse_midi_download_url(detail_html.content.payload)
         IN  IF ~download_url.none
             THEN [midi EXCEPT !.url = download_url.url]
             ELSE midi
    ELSE midi

\* the body of the loop of get_midi_files_for_game after the detail fetch:
\* the entry, given what get_text returned
ResolveUrl(midi, detail_html) ==
    IF ~detail_html.none
    THEN LET download_url == parse_midi_download_url(detail_html.content.payload)
         IN  IF ~download_url.none /\ download_url.url # <<>>
             THEN [midi EXCEPT !.url = download_url.url]
             ELSE midi
    ELSE midi

\* the pass without the detail fetch for an entry that links to a .mid file
ResolveOneDirect ==
    /\ pc = "resolve"
    /\ \E script \in Scripts({EmptyBody} \cup {Doc(page) : page \in DetailPages}) :
         LET midi        == midi_files[fi]
             detail_html == GetText(midi.url, script, max_retries)
         IN  IF LastSegment(midi.url) = A_MID
             THEN /\ details' = Append(details, [fetched |-> FALSE, page |-> NoDetail])
                  /\ UNCHANGED <<clientVars, reqLog, midi_files>>
             ELSE /\ ClientStep(0, 0)
                  /\ reqLog' = Append(reqLog, Request("detail", fi, midi.url))
                  /\ details' = Append(details,
                                       [fetched |-> ~detail_html.none,
                                        page    |-> IF detail_html.none THEN NoDetail
                                                    ELSE detail_html.content.payload])
                  /\ midi_files' = [midi_files EXCEPT ![fi] = ResolveUrl(midi, detail_html)]
    /\ fi' = fi + 1
    /\ pc' = IF fi = Len(midi_files) THEN "mkdir" ELSE "resolve"
    /\ UNCHANGED <<args, constructed, closed, rate_limit_delay, max_retries,
                   lastGet, games, gi, output_dir, game_url, listed,
                   downloaded, skipped, saved, fs, fs0>>

\* one pass of the loop of get_midi_files_for_game: the detail fetch of the
\* entry's url, parse_midi_download_url and the assignment to midi.url
ResolveOne ==
    /\ pc = "resolve"
    /\ \E script \in Scripts({EmptyBody} \cup
                {Doc(page) : page \in IF args.game # <<>> THEN DetailPages
                                                          ELSE SystemDetailPages}) :
         LET midi        == midi_files[fi]
             detail_html == GetText(midi.url, script, max_retries)
         IN  /\ ClientStep(0, 0)
             /\ reqLog' = Append(reqLog, Request("detail", fi, midi.url))
             /\ details' = Append(details,
                                  [fetched |-> ~detail_html.none,
                                   page    |-> IF detail_html.none THEN NoDetail
                                               ELSE detail_html.content.payload])
             /\ midi_files' = [midi_files EXCEPT ![fi] = ResolveUrl(midi, detail_html)]
    /\ fi' = fi + 1
    /\ pc' = IF fi = Len(midi_files) THEN "mkdir" ELSE "resolve"
    /\ UNCHANGED <<args, constructed, closed, rate_limit_delay, max_retries,
                   lastGet, games, gi, output_dir, game_url, listed,
                   downloaded, skipped, saved, fs, fs0>>

\* self.file_repo.create_directory(output_dir): its result is not looked at
CreateDirectory ==
    /\ pc = "mkdir"
    /\ \E outcome \in {"ok", "mkdir_failed"} :
         /\ pc' = IF create_directory(outcome).raised THEN "raised" ELSE "download"
         /\ fi' = 1
         /\ details' = <<>>
    /\ UNCHANGED <<args, constructed, closed, clientVars, lastGet, games, gi,
                   output_dir, game_url, reqLog, midi_files, listed,
                   downloaded, skipped, saved, fs, fs0>>

\* one pass of the loop of DownloadGameUseCase.execute
DownloadOne ==
    /\ pc = "download"
    /\ LET midi      == midi_files[fi]
           file_path == Append(output_dir, filename(midi))
           next_pc   == IF fi = Len(midi_files) THEN "ret" ELSE "download"
       IN  \/ /\ args.resume
              /\ \E stat \in StatOutcomes(fs, file_path) :
                   LET probe == file_exists(fs, file_path, stat)
                   IN  /\ probe.raised \/ probe.exists
                       /\ IF probe.raised
                          THEN /\ pc' = "raised"
                               /\ UNCHANGED <<midi_files, downloaded, skipped>>
                          ELSE /\ midi_files' =
                                    [midi_files EXCEPT ![fi] = mark_downloaded(midi)]
                               /\ downloaded' = Append(downloaded, fi)
                               /\ skipped' = skipped \cup {fi}
                               /\ pc' = next_pc
              /\ UNCHANGED <<clientVars, lastGet, reqLog, saved, fs>>
           \/ /\ ~args.resume \/ ~file_exists(fs, file_path, "ok").exists
              /\ \E script \in FileScripts(args.game = <<>>),
                    outcome \in FsOutcomes :
                   LET content == GetContent(midi.url, script, max_retries)
                       got     == ~content.none /\ content.content.size > 0
                       result  == save_file(fs, content.content.payload,
                                            file_path, outcome)
                   IN  /\ ClientStep(0, 0)
                       /\ reqLog' = Append(reqLog, Request("download", fi, midi.url))
                       /\ lastGet' = [url |-> midi.url, script |-> script,
                                      none |-> content.none,
                                      content |-> content.content,
                                      attempts |-> content.attempts,
                                      text |-> FALSE]
                       /\ pc' = IF got /\ result.raised THEN "raised" ELSE next_pc
                       /\ IF got
                          THEN /\ fs' = result.disk
                               /\ IF result.ok
                                  THEN /\ midi_files' =
                                            [midi_files EXCEPT ![fi] =
                                                mark_downloaded(
                                                    [midi EXCEPT !.size_bytes =
                                                        content.content.size])]
                                       /\ downloaded' = Append(downloaded, fi)
                                       /\ saved' = saved \cup {fi}
                                  ELSE UNCHANGED <<midi_files, downloaded, saved>>
                          ELSE UNCHANGED <<midi_files, downloaded, saved, fs>>
                       /\ UNCHANGED <<rate_limit_delay, max_retries, skipped>>
    /\ fi' = fi + 1
    /\ UNCHANGED <<args, constructed, closed, games, gi, output_dir,
                   game_url, listed, details, fs0>>

\* the list DownloadGameUseCase.execute returns: the MidiFile objects of
\* `downloaded`
DownloadedList == [k \in 1..Len(downloaded) |-> midi_files[downloaded[k]]]

\* main, game mode: execute returned, the count is printed
GameModeDone ==
    /\ pc = "ret"
    /\ args.game # <<>>
    /\ pc' = "finally"
    /\ UNCHANGED <<args, constructed, closed, clientVars, lastGet, games, gi,
                   output_dir, game_url, gameVars, fs, fs0>>

\* the loop of DownloadSystemUseCase.execute without the assignment to
\* game.midi_files
NextGameNoStore ==
    /\ pc = "ret"
    /\ args.game = <<>>
    /\ IF gi < Len(games)
       THEN /\ gi' = gi + 1
            /\ pc' = "list"
            /\ EnterGame(games[gi + 1].url,
                         OUT \o <<args.system, games[gi + 1].name>>)
       ELSE /\ pc' = "finally"
            /\ UNCHANGED <<gi, output_dir, game_url, gameVars>>
    /\ UNCHANGED <<args, constructed, closed, clientVars, games, fs, fs0>>

\* DownloadSystemUseCase.execute: the per-game download returned, its list is
\* stored on the game, and the loop goes to the next game or returns the games
NextGame ==
    /\ pc = "ret"
    /\ args.game = <<>>
    /\ games' = [games EXCEPT ![gi].midi_files = DownloadedList]
    /\ IF gi < Len(games)
       THEN /\ gi' = gi + 1
            /\ pc' = "list"
            /\ EnterGame(games[gi + 1].url,
                         OUT \o <<args.system, games[gi + 1].name>>)
       ELSE /\ pc' = "finally"
            /\ UNCHANGED <<gi, output_dir, game_url, gameVars>>
    /\ UNCHANGED <<args, constructed, closed, clientVars, fs, fs0>>

\* close after the try block instead of in a finally
CloseOnSuccess ==
    /\ pc = "finally"
    /\ closed' = TRUE
    /\ pc' = "exit_ok"
    /\ UNCHANGED <<args, constructed, clientVars, lastGet, games, gi,
                   output_dir, game_url, gameVars, fs, fs0>>

\* main's finally: client.close(), after a normal end of the try block or
\* while an exception propagates
Close ==
    /\ pc \in {"finally", "raised"}
    /\ closed' = TRUE
    /\ pc' = IF pc = "finally" THEN "exit_ok" ELSE "exit_error"
    /\ UNCHANGED <<args, constructed, clientVars, lastGet, games, gi,
                   output_dir, game_url, gameVars, fs, fs0>>

Next ==
    \/ ParseArgs
    \/ GetGamesForSystem
    \/ SystemMkdir
    \/ ListFetch
    \/ ResolveOne
    \/ CreateDirectory
    \/ DownloadOne
    \/ GameModeDone
    \/ NextGame
    \/ Close

Spec == Init /\ [][Next]_vars

\* The start of the runs checked for what they eventually do: the disk
\* holds none of the files before the run, or all of them.
FairInit ==
    /\ Init
    /\ \/ DOMAIN fs0 = {}
       \/ \A d \in Dirs, f \in {A_MID, B_MID} : Append(d, f) \in DOMAIN fs0

\* main is not stopped from outside: a step that can be taken is taken
FairSpec == FairInit /\ [][Next]_vars /\ WF_vars(Next)

-----------------------------------------------------------------------------------------------------------------------------------------------------
(* A free-standing client: one KhinsiderClient instance whose get and      *)
(* get_text are called in any order against a server that answers as it    *)
(* likes.  Two specifications: under SpecPacing any time passes between the *)
(* calls and sleep may oversleep; under SpecRetry the client is configured  *)
(* with any max_retries and the server answers with any statuses.           *)

MIDI_BODY == File(<<7, 8>>)

PacingScripts ==
    {Script(0, 503, final, MIDI_BODY) : final \in {200, 404}}

RetryScripts ==
    {Script(0, 503, final, body) :
        final \in {200, 404, 503}, body \in {EmptyBody, MIDI_BODY}}
        \cup {Script(fails, status, 200, MIDI_BODY) :
                fails \in 1..(MaxRetriesCfg + 1), status \in StatusForcelist \cup {404}}

ClientInit(delays, retries) ==
    /\ pc = "client"
    /\ args = [system |-> <<>>, game |-> <<>>, resume |-> FALSE, delay |-> 0]
    /\ constructed = TRUE
    /\ closed = FALSE
    /\ rate_limit_delay \in delays
    /\ max_retries \in retries
    /\ last_request_time = 0
    /\ now = StartTime
    /\ sendTimes = <<>>
    /\ lastGet = NoGet
    /\ reqLog = <<>>
    /\ games = <<>>
    /\ gi = 0
    /\ output_dir = <<>>
    /\ game_url = <<>>
    /\ midi_files = <<>>
    /\ listed = <<>>
    /\ details = <<>>
    /\ fi = 0
    /\ downloaded = <<>>
    /\ skipped = {}
    /\ saved = {}
    /\ fs0 = << >>
    /\ fs = fs0

pipelineVars == <<args, games, gi, output_dir, game_url, midi_files, listed,
                  details, fi, downloaded, skipped, saved, fs, fs0>>

\* one call of get (text = FALSE) or get_text (text = TRUE)
ClientCall(text, scripts, elapsedTimes, oversleeps) ==
    /\ pc = "client"
    /\ Len(reqLog) < MaxRequests
    /\ \E url \in {GAME_URL, <<"g1">>}, script \in scripts,
          elapsed \in elapsedTimes, over \in oversleeps :
         LET r == IF text THEN GetText(url, script, max_retries)
                  ELSE GetContent(url, script, max_retries)
         IN  /\ ClientStep(elapsed, over)
             /\ reqLog' = Append(reqLog, Request("call", 0, <<>>))
             /\ lastGet' = [url |-> url, script |-> script, none |-> r.none,
                            content |-> r.content, attempts |-> r.attempts,
                            text |-> text]
    /\ UNCHANGED <<pc, constructed, closed, rate_limit_delay, max_retries, pipelineVars>>

\* KhinsiderClient.close, and __exit__, which calls it
ClientClose ==
    /\ pc = "client"
    /\ closed' = TRUE
    /\ pc' = "client_closed"
    /\ UNCHANGED <<constructed, clientVars, lastGet, reqLog, pipelineVars>>

PacedGet == ClientCall(FALSE, PacingScripts, 0..MaxElapsed, 0..MaxOversleep)
PacedGetText == ClientCall(TRUE, PacingScripts, 0..MaxElapsed, 0..MaxOversleep)

PacingNext == PacedGet \/ PacedGetText \/ ClientClose

SpecPacing ==
    ClientInit(0..MaxDelay, {DefaultMaxRetries}) /\ [][PacingNext]_vars

RetriedGet == ClientCall(FALSE, RetryScripts, {0}, {0})
RetriedGetText == ClientCall(TRUE, RetryScripts, {0}, {0})

RetryNext == RetriedGet \/ RetriedGetText \/ ClientClose

SpecRetry ==
    ClientInit({DefaultDelay}, 0..MaxRetriesCfg) /\ [][RetryNext]_vars

-----------------------------------------------------------------------------
(* The scraper on its own: one href, drawn at the start, is put in a game   *)
(* list page, in a file list page and in a detail page, and each parser is  *)
(* applied to its page.  game_url holds the href, games the result of       *)
(* parse_game_list, listed that of parse_midi_list, details that of         *)
(* parse_midi_download_url.                                                 *)

HrefTokens == {SLASH, "https:", "x", ".mid"}

Hrefs == SeqsUpTo(HrefTokens, MaxHrefLen)

ScraperInit ==
    /\ pc = "scrape"
    /\ args = [system |-> <<>>, game |-> <<>>, resume |-> FALSE, delay |-> 0]
    /\ constructed = FALSE
    /\ closed = FALSE
    /\ rate_limit_delay = 0
    /\ max_retries = 0
    /\ last_request_time = 0
    /\ now = StartTime
    /\ sendTimes = <<>>
    /\ lastGet = NoGet
    /\ reqLog = <<>>
    /\ games = <<>>
    /\ gi = 0
    /\ output_dir = <<>>
    /\ game_url \in Hrefs
    /\ midi_files = <<>>
    /\ listed = <<>>
    /\ details = <<>>
    /\ fi = 0
    /\ downloaded = <<>>
    /\ skipped = {}
    /\ saved = {}
    /\ fs0 = << >>
    /\ fs = fs0

\* parse_game_list on a page with a header row and one game row
ScrapeGameList ==
    /\ pc = "scrape"
    /\ games' = parse_game_list(Page(TRUE, <<HeaderRow, Row(2, TRUE, <<"g">>, game_url)>>))
    /\ UNCHANGED <<pc, args, constructed, closed, clientVars, lastGet, gi,
                   output_dir, game_url, reqLog, midi_files, listed, details,
                   fi, downloaded, skipped, saved, fs, fs0>>

\* parse_midi_list on a page with one file row
ScrapeMidiList ==
    /\ pc = "scrape"
    /\ listed' = parse_midi_list(Page(TRUE, <<Row(2, TRUE, <<"m">>, game_url)>>))
    /\ UNCHANGED <<pc, args, constructed, closed, clientVars, lastGet, gi,
                   output_dir, game_url, reqLog, midi_files, games, details,
                   fi, downloaded, skipped, saved, fs, fs0>>

\* parse_midi_download_url on a page with the download anchor
ScrapeDownloadUrl ==
    /\ pc = "scrape"
    /\ details' = <<parse_midi_download_url([link |-> TRUE, href |-> game_url])>>
    /\ UNCHANGED <<pc, args, constructed, closed, clientVars, lastGet, gi,
                   output_dir, game_url, reqLog, midi_files, games, listed,
                   fi, downloaded, skipped, saved, fs, fs0>>

ScraperNext == ScrapeGameList \/ ScrapeMidiList \/ ScrapeDownloadUrl

SpecScraper == ScraperInit /\ [][ScraperNext]_vars

-----------------------------------------------------------------------------
(* Properties *)

\* the destination path of entry i of the running per-game download
PathOf(i) == Append(output_dir, filename(midi_files[i]))

\* the download loop asked the client for the bytes of entry i
DownloadRequested(i) ==
    \E k \in 1..Len(reqLog) : reqLog[k].kind = "download" /\ reqLog[k].idx = i

Range(seq) == {seq[k] : k \in 1..Len(seq)}

\* the members of a set of numbers, in ascending order
RECURSIVE Ascending(_)
Ascending(S) ==
    IF S = {} THEN <<>>
    ELSE LET least == CHOOSE x \in S : \A y \in S : x <= y
         IN  <<least>> \o Ascending(S \ {least})

\* C1: with resume on, when the download loop comes to an entry whose
\* destination path is a file on disk, that pass marks the entry downloaded
\* and appends it to the downloaded list without a request of the client, and
\* no later pass takes an entry off the downloaded list.
C1_ResumeSkipsExisting ==
    [][ /\ (pc = "download" /\ args.resume /\ PathOf(fi) \in DOMAIN fs)
            => /\ midi_files'[fi].downloaded
               /\ downloaded' = Append(downloaded, fi)
               /\ reqLog' = reqLog
               /\ sendTimes' = sendTimes
               /\ last_request_time' = last_request_time
        /\ (pc = "download" /\ pc' \in {"download", "ret"})
            => SubSeq(downloaded', 1, Len(downloaded)) = downloaded ]_vars

C1_Witness ==
    /\ pc = "ret"
    /\ args.resume
    /\ Len(midi_files) = 2
    /\ 1 \in saved
    /\ 2 \in skipped
    /\ midi_files[2].downloaded
    /\ ~DownloadRequested(2)
    /\ 2 \in Range(downloaded)

\* C2, as claimed: no exception leaves either loop.  An exception is raised
\* only before the loop over the games begins; a per-game download that has
\* entries ends with every entry gone through (skipped by resume, or asked of
\* the client), whatever failed on the way, and a run over a system ends
\* with every listed game gone through.
C2_NoItemAbortsBatch ==
    /\ pc \in {"raised", "exit_error"} => gi = 0 /\ fi = 0
    /\ (pc \in {"ret", "finally", "exit_ok"} /\ midi_files # <<>>)
        => /\ fi = Len(midi_files) + 1
           /\ \A i \in 1..Len(midi_files) : i \in skipped \/ DownloadRequested(i)
    /\ (pc \in {"finally", "exit_ok"} /\ args.game = <<>>) => gi = Len(games)

\* C3: a request of the client is sent no sooner than rate_limit_delay after
\* the request before it was sent.
C3_RequestsSpaced ==
    Len(sendTimes) = 2 => sendTimes[2] - sendTimes[1] >= rate_limit_delay

C3_Witness ==
    /\ Len(sendTimes) = 2
    /\ rate_limit_delay = MaxDelay
    /\ sendTimes[2] - sendTimes[1] = rate_limit_delay
    /\ Len(reqLog) = 3

\* C4: a get of a valid url returns the 200 body when the server answers a
\* status of the status_forcelist at most max_retries times and then 200 (for
\* get_text: unless that body is empty); it returns None, after max_retries + 1
\* attempts, when the server goes on answering a status of the forcelist.
C4_RetryBudget ==
    (Len(reqLog) > 0 /\ ValidUrl(lastGet.url)) =>
        LET script == lastGet.script
        IN  /\ ( /\ script.fails <= max_retries
                 /\ script.status \in StatusForcelist
                 /\ script.final = 200 )
                => IF lastGet.text /\ script.body.size = 0
                   THEN lastGet.none
                   ELSE /\ ~lastGet.none
                        /\ lastGet.content = script.body
                        /\ lastGet.attempts = script.fails + 1
            /\ ( \/ script.final \in StatusForcelist
                 \/ script.status \in StatusForcelist /\ script.fails > max_retries )
                => /\ lastGet.none
                   /\ lastGet.attempts = max_retries + 1

C4_Witness ==
    /\ max_retries = 3
    /\ ValidUrl(lastGet.url)
    /\ lastGet.script = Script(2, 503, 200, MIDI_BODY)
    /\ ~lastGet.none
    /\ lastGet.content = MIDI_BODY
    /\ lastGet.attempts = 3

\* C5: the downloaded list of a per-game download is, in listing order, the
\* entries the resume branch skipped and the entries whose bytes were
\* fetched and saved; a saved entry has its size recorded and a file at its
\* destination path, and right after its save that file has that size.
C5_ReturnedList ==
    (pc \in {"download", "ret", "finally", "exit_ok"} /\ midi_files # <<>>) =>
        /\ downloaded = Ascending(skipped \cup saved)
        /\ skipped \cap saved = {}
        /\ \A i \in saved :
              /\ DownloadRequested(i)
              /\ midi_files[i].size_bytes > 0
              /\ PathOf(i) \in DOMAIN fs
        /\ (fi - 1) \in saved
              => Len(fs[PathOf(fi - 1)]) = midi_files[fi - 1].size_bytes

C5_Witness ==
    /\ pc = "ret"
    /\ Len(midi_files) = 2
    /\ 1 \in skipped
    /\ 2 \in saved
    /\ downloaded = <<1, 2>>
    /\ midi_files[2].size_bytes = 2
    /\ fs[PathOf(2)] = <<7, 8>>
    /\ fs[PathOf(1)] = OldBytes

\* C6, as claimed: an entry has size 0 and downloaded false unless a save of
\* it succeeded.
C6_DownloadedOnlyAfterSave ==
    \A i \in 1..Len(midi_files) :
        i \notin saved
            => midi_files[i].size_bytes = 0 /\ ~midi_files[i].downloaded

\* C6, amended: an entry has size 0 unless a save of it succeeded, and it is
\* marked downloaded only if a save of it succeeded or resume is on and a
\* file is at its destination path.
C6_DownloadedAfterSaveOrResume ==
    \A i \in 1..Len(midi_files) :
        /\ i \notin saved => midi_files[i].size_bytes = 0
        /\ midi_files[i].downloaded
            => i \in saved \/ (args.resume /\ PathOf(i) \in DOMAIN fs)

C6_Witness ==
    /\ pc = "download"
    /\ fi = 2
    /\ args.resume
    /\ midi_files[1].downloaded
    /\ midi_files[1].size_bytes = 0
    /\ saved = {}
    /\ fs = fs0

\* C7: while and after get_midi_files_for_game resolves the entries, the
\* list has the entries parse_midi_list returned, in that order, and an
\* entry differs from the parsed one in its url only, which is the parsed
\* download url if its detail fetch gave a page and a download url was parsed
\* from it, and the url of the listing otherwise.
C7_ResolutionFrame ==
    pc \in {"resolve", "mkdir"} =>
        /\ Len(midi_files) = Len(listed)
        /\ Len(details) = fi - 1
        /\ \A i \in 1..Len(midi_files) :
              LET parsed == parse_midi_download_url(details[i].page)
              IN  midi_files[i] =
                    IF /\ i <= Len(details)
                       /\ details[i].fetched
                       /\ ~parsed.none
                       /\ parsed.url # <<>>
                    THEN [listed[i] EXCEPT !.url = parsed.url]
                    ELSE listed[i]

C7_Witness ==
    /\ pc = "mkdir"
    /\ Len(midi_files) = 2
    /\ details[1].fetched
    /\ details[1].page.link
    /\ midi_files[1].url = listed[1].url
    /\ details[2].fetched
    /\ midi_files[2].url # listed[2].url

\* the requests get_midi_files_for_game has issued after resolving n entries
ExpectedLog(n) ==
    <<Request("listing", 0, game_url)>>
        \o [i \in 1..n |-> Request("detail", i, listed[i].url)]

\* C8: get_midi_files_for_game requests the game's page and then, in listing
\* order, the url of each parsed entry, once: file count + 1 requests when
\* it returns, and the one request when it returns no entry.
C8_FetchCount ==
    /\ pc = "resolve" => reqLog = ExpectedLog(fi - 1)
    /\ pc = "mkdir"
        => /\ reqLog = ExpectedLog(Len(midi_files))
           /\ Len(reqLog) = Len(midi_files) + 1
    /\ (pc = "ret" /\ midi_files = <<>>) => reqLog = ExpectedLog(0)

C8_Witness ==
    /\ pc = "mkdir"
    /\ Len(midi_files) = 2
    /\ Len(reqLog) = 3
    /\ reqLog[3].kind = "detail"
    /\ reqLog[3].idx = 2

\* C9, as claimed: a run gets past the validation of the arguments exactly
\* when one of --system and --game is supplied and the other is not.
C9_ExactlyOneMode ==
    pc # "start" =>
        IF (args.system = <<>>) # (args.game = <<>>)
        THEN pc # "usage_error"
        ELSE pc = "usage_error"

\* C10: once the client is constructed its close is eventually called, and
\* main has ended, normally or with an exception, only after it was.
C10_ClientClosed ==
    /\ constructed ~> closed
    /\ [](pc \in {"exit_ok", "exit_error"} => closed)

C10_Witness ==
    /\ pc = "exit_error"
    /\ constructed
    /\ closed

\* the normalisation the documentation states for every parser
NormalizedUrl(href) ==
    IF StartsWith(href, <<SLASH, SLASH>>) THEN <<"https:">> \o href
    ELSE IF StartsWith(href, <<SLASH>>) THEN SITE \o href
    ELSE href

\* C11, as claimed: every URL a parser has produced from the href is the
\* href normalised the one way: "//..." gets "https:" in front, "/..." gets
\* the site in front, anything else is unchanged.
C11_UniformNormalization ==
    pc = "scrape" =>
        /\ \A k \in 1..Len(games) : games[k].url = NormalizedUrl(game_url)
        /\ \A k \in 1..Len(listed) : listed[k].url = NormalizedUrl(game_url)
        /\ \A k \in 1..Len(details) :
              ~details[k].none => details[k].url = NormalizedUrl(game_url)

\* the run is the per-system download
SystemMode == args.game = <<>> /\ args.system # <<>>

\* the places of the per-game download
PerGamePcs == {"list", "resolve", "mkdir", "download", "ret"}

\* outputDir/systemName/gameName of game k
GameDir(k) == OUT \o <<args.system, games[k].name>>

\* C12: in a per-system download the per-game download always runs for the
\* game the loop is at, with that game's url and the directory
\* outputDir/systemName/gameName, while the games from there on hold no list
\* yet; the loop goes from each game to the next one, none left out; when a
\* per-game download returns, its list is stored on that game's record and no
\* other record changes; the games returned are the games listed, each one
\* gone through, whether it got files or not; with no game listed the
\* download returns with no per-game download called and nothing written.
C12_SystemLoop ==
    /\ [](SystemMode /\ pc \in PerGamePcs =>
            /\ gi \in 1..Len(games)
            /\ output_dir = GameDir(gi)
            /\ game_url = games[gi].url
            /\ \A k \in gi..Len(games) : games[k].midi_files = <<>>)
    /\ [](SystemMode /\ pc \in {"finally", "exit_ok"} =>
            IF games = <<>>
            THEN gi = 0 /\ reqLog = <<>> /\ fs = fs0
            ELSE gi = Len(games))
    /\ [][SystemMode /\ pc \notin {"start", "sys_list"} =>
            /\ gi' \in {gi, gi + 1}
            /\ gi' = gi + 1 => pc \in {"sys_mkdir", "ret"} /\ pc' = "list"
            /\ Len(games') = Len(games)
            /\ \A k \in 1..Len(games) :
                  /\ games'[k].name = games[k].name
                  /\ games'[k].url = games[k].url
                  /\ games'[k].midi_files =
                        IF pc = "ret" /\ k = gi THEN DownloadedList
                        ELSE games[k].midi_files]_vars

\* a per-system download has returned two games, the first with no file
\* downloaded and the second with one
C12_Witness ==
    /\ SystemMode /\ pc = "exit_ok"
    /\ Len(games) = 2
    /\ games[1].midi_files = <<>>
    /\ games[2].midi_files # <<>>

\* a per-system download has returned with no game listed
C12_WitnessEmpty == SystemMode /\ pc = "exit_ok" /\ games = <<>>

\* the step is an iteration of the download loop in which get returned
\* content for the entry
FetchedContent ==
    /\ pc = "download"
    /\ Len(reqLog') = Len(reqLog) + 1
    /\ ~lastGet'.none
    /\ lastGet'.content.size > 0

\* with resume on no step changes a file that is on disk, so every file that
\* was there before the run keeps its content
ResumeKeepsFiles ==
    /\ [](args.resume =>
            \A p \in DOMAIN fs0 : p \in DOMAIN fs /\ fs[p] = fs0[p])
    /\ [][args.resume =>
            \A p \in DOMAIN fs : p \in DOMAIN fs' /\ fs'[p] = fs[p]]_vars

\* with resume on, an entry that comes after a saved entry of the same
\* filename is treated as already present: marked downloaded, not saved, no
\* request made for its bytes, its size left 0
FirstSavedWins ==
    [](args.resume /\ pc \in {"download", "ret", "finally", "exit_ok"} =>
        \A i, j \in 1..Len(midi_files) :
            (i < j /\ j < fi /\ i \in saved
                /\ filename(midi_files[i]) = filename(midi_files[j]))
            => /\ j \in skipped /\ j \notin saved
               /\ ~DownloadRequested(j)
               /\ midi_files[j].downloaded
               /\ midi_files[j].size_bytes = 0)

C13_WitnessCollision ==
    /\ args.resume /\ pc = "ret"
    /\ Len(midi_files) = 2
    /\ filename(midi_files[1]) = filename(midi_files[2])
    /\ 1 \in saved /\ 2 \in skipped

\* with resume off a fetch returned content and the save failed: the old
\* file is still at the destination path
C13_WitnessSaveFailed ==
    /\ ~args.resume /\ pc = "ret" /\ Len(midi_files) = 1
    /\ ~lastGet.none /\ lastGet.content.size > 0
    /\ 1 \notin saved
    /\ PathOf(1) \in DOMAIN fs /\ fs[PathOf(1)] = OldBytes

====
